---- MODULE Spec2Model ----
(***************************************************************************)
(* Model of the BTreeDB adapter of YCSB-cpp (src/btree/btree_db.cc,        *)
(* src/btree/btree_db.h): the reference-counted shared engine handle       *)
(* (Init / Cleanup), the row codec (SerializeRow / DeserializeRow /        *)
(* DeserializeRowFilter) and the five CRUD operations.                     *)
(***************************************************************************)
EXTENDS Integers, Sequences, FiniteSets, TLC

(***************************************************************************)
(* Bounds of the model.                                                    *)
(***************************************************************************)
NumAdapters == 2
MaxFields == 2
MaxKey == 2
MaxScanLen == 2

(***************************************************************************)
(* Program constants.                                                      *)
(***************************************************************************)
\* PAGE_SIZE is the engine's constant (common/config.h), used at line 57.
PAGE_SIZE == 4096
POOL_SIZE_NAME_DEFAULT == 134217728
PROP_NAME_DEFAULT == ""
LenBytes == 4

Adapters == 1 .. NumAdapters
nullptr == 0

\* Values of the btree.dbname property: absent (the default "") or a path.
Paths == {PROP_NAME_DEFAULT, "/data/btree"}
\* Values of the btree.pool_size property.
PoolSizes == {POOL_SIZE_NAME_DEFAULT, 8192}
\* Values of the fieldcount property.
FieldCounts == {1, 2}

VARIABLES
  db_,          \* static KVTable *db_: nullptr or the index of a handle in heap
  ref_cnt_,     \* static int ref_cnt_
  mu_,          \* static std::mutex mu_: 0 when free, else the holding adapter
  heap,         \* every KVTable ever constructed: path, page budget, open/freed, deletes
  pc,           \* position of each adapter in its lifetime
  fieldcount_,  \* per adapter: int fieldcount_
  props,        \* per adapter: the properties props_ points to
  lateInit,     \* history: some Init was entered after a Cleanup had been entered
  crashed,      \* the process was aborted
  cRow,         \* codec: the row (std::vector<Field>) handed to SerializeRow
  cFields,      \* codec: the field list handed to DeserializeRowFilter
  cData,        \* codec: the buffer (std::string data)
  cOut,         \* codec: what the last decode produced
  cpc,          \* codec: which codec function ran last
  store,        \* the entries of the engine: key -> encoded row
  last,         \* the last CRUD call: its arguments, status and output
  written,      \* history: key -> the row of the last Insert or Update on it
  issued        \* history: the adapters that called Get, Put or Seek on db_

lifeVars == <<db_, ref_cnt_, mu_, heap, pc, fieldcount_, props, lateInit, crashed>>
codecVars == <<cRow, cFields, cData, cOut, cpc>>
storeVars == <<store, last, written, issued>>
vars == <<lifeVars, codecVars, storeVars>>

Properties == [path : Paths, pool_size : PoolSizes, fieldcount : FieldCounts]

(***************************************************************************)
(* BTreeDB::Init, lines 34-59.                                             *)
(***************************************************************************)
\* Mutant of LockFree: the mutex never blocks.
LockFreeNoMutex == TRUE

\* std::lock_guard<std::mutex> lock(mu_) can be taken.
LockFree == mu_ = 0

\* Lines 35-46: take the lock, set fieldcount_, ref_cnt_++.
InitEnter(a) ==
  /\ ~crashed
  /\ pc[a] = "new"
  /\ LockFree
  /\ mu_' = a
  /\ fieldcount_' = [fieldcount_ EXCEPT ![a] = props[a].fieldcount]
  /\ ref_cnt_' = ref_cnt_ + 1
  /\ pc' = [pc EXCEPT ![a] = "init"]
  /\ lateInit' = (lateInit \/ \E b \in Adapters : pc[b] \in {"cleanup", "done"})
  /\ UNCHANGED <<db_, heap, props, crashed, codecVars, storeVars>>

\* new cmudb::KVTable(db_path, page_num), lines 56-58.
NewKVTable(p) ==
  [path |-> p.path, page_num |-> p.pool_size \div PAGE_SIZE, state |-> "open", deletes |-> 0]

\* Mutant of DbIsSet: the handle is never taken to exist.
DbIsSetNever == FALSE

\* Line 47: if (db_).
DbIsSet == db_ # nullptr

\* Mutant of DbPathMissing: the path is never taken to be missing.
DbPathMissingNever(p) == FALSE

\* Line 52: db_path == "".
DbPathMissing(p) == p.path = PROP_NAME_DEFAULT

\* Lines 47-59: return if db_ is set, throw if the path is missing, else open.
InitFinish(a) ==
  /\ ~crashed
  /\ pc[a] = "init"
  /\ IF DbIsSet
       THEN /\ pc' = [pc EXCEPT ![a] = "ready"]
            /\ UNCHANGED <<db_, heap>>
       ELSE IF DbPathMissing(props[a])
              THEN /\ pc' = [pc EXCEPT ![a] = "failed"]
                   /\ UNCHANGED <<db_, heap>>
              ELSE /\ heap' = Append(heap, NewKVTable(props[a]))
                   /\ db_' = Len(heap) + 1
                   /\ pc' = [pc EXCEPT ![a] = "ready"]
  /\ mu_' = 0
  /\ UNCHANGED <<ref_cnt_, fieldcount_, props, lateInit, crashed, codecVars, storeVars>>

(***************************************************************************)
(* BTreeDB::Cleanup, lines 61-67.                                          *)
(***************************************************************************)
\* Lines 62-63: take the lock, --ref_cnt_.
CleanupEnter(a) ==
  /\ ~crashed
  /\ pc[a] = "ready"
  /\ LockFree
  /\ mu_' = a
  /\ ref_cnt_' = ref_cnt_ - 1
  /\ pc' = [pc EXCEPT ![a] = "cleanup"]
  /\ UNCHANGED <<db_, heap, fieldcount_, props, lateInit, crashed, codecVars, storeVars>>

\* Line 66 leaves db_ as it is: the pointer is not reset after delete.
DbAfterDelete == db_

\* Lines 63-67: return while references remain, else delete db_.  Deleting a
\* freed handle again is undefined: the process aborts or carries on.
CleanupFinish(a) ==
  /\ ~crashed
  /\ pc[a] = "cleanup"
  /\ IF ref_cnt_ # 0 \/ db_ = nullptr
       THEN UNCHANGED <<db_, heap, crashed>>
       ELSE IF heap[db_].state = "open"
              THEN /\ heap' = [heap EXCEPT ![db_].state = "freed", ![db_].deletes = 1]
                   /\ db_' = DbAfterDelete
                   /\ UNCHANGED crashed
              ELSE \/ /\ crashed' = TRUE
                      /\ UNCHANGED <<db_, heap>>
                   \/ /\ heap' = [heap EXCEPT ![db_].deletes = @ + 1]
                      /\ db_' = DbAfterDelete
                      /\ UNCHANGED crashed
  /\ pc' = [pc EXCEPT ![a] = "done"]
  /\ mu_' = 0
  /\ UNCHANGED <<ref_cnt_, fieldcount_, props, lateInit, codecVars, storeVars>>

(***************************************************************************)
(* The lifecycle on its own: adapters with any properties.                 *)
(***************************************************************************)
\* fields == nullptr, and a field list.
NoFields == [given |-> FALSE, names |-> <<>>]
FieldList(names) == [given |-> TRUE, names |-> names]

NoCall ==
  [op |-> "none", table |-> "", fc |-> 0, key |-> 0, len |-> 0, fields |-> NoFields, row |-> <<>>,
   status |-> "none", result |-> <<>>, rows |-> <<>>]

StoreIdle ==
  /\ store = <<>>
  /\ last = NoCall
  /\ written = <<>>
  /\ issued = {}

CodecIdle ==
  /\ cRow = <<>>
  /\ cFields = <<>>
  /\ cData = <<>>
  /\ cOut = [status |-> "none", values |-> <<>>]
  /\ cpc = "idle"

InitLife ==
  /\ CodecIdle
  /\ StoreIdle
  /\ db_ = nullptr
  /\ ref_cnt_ = 0
  /\ mu_ = 0
  /\ heap = <<>>
  /\ pc = [a \in Adapters |-> "new"]
  /\ fieldcount_ = [a \in Adapters |-> 0]
  /\ props \in [Adapters -> Properties]
  /\ lateInit = FALSE
  /\ crashed = FALSE

NextLife ==
  \E a \in Adapters :
    \/ InitEnter(a)
    \/ InitFinish(a)
    \/ CleanupEnter(a)
    \/ CleanupFinish(a)

SpecLife == InitLife /\ [][NextLife]_vars

(***************************************************************************)
(* Observations on the lifecycle.                                          *)
(***************************************************************************)
RECURSIVE SumDeletes(_)
SumDeletes(h) == IF h = <<>> THEN 0 ELSE Head(h).deletes + SumDeletes(Tail(h))

\* Number of times an engine handle was opened / delete was run on a handle.
Opens == Len(heap)
Closes == SumDeletes(heap)

AllValid == \A a \in Adapters : props[a].path # PROP_NAME_DEFAULT
AllDone == \A a \in Adapters : pc[a] = "done"
Holders == {a \in Adapters : pc[a] = "ready"}
InCritical == {a \in Adapters : pc[a] \in {"init", "cleanup"}}

\* C1 as stated: N adapters with valid configuration each run Init and later
\* Cleanup once, in any interleaving; once all have finished the handle was
\* opened exactly once and closed exactly once, and whoever is inside Init or
\* Cleanup holds the mutex.
C1_AnyInterleavingOnce ==
  /\ \A a \in InCritical : mu_ = a
  /\ (AllValid /\ AllDone) => (Opens = 1 /\ Closes = 1)

\* C1 amended: when every Init is entered before the first Cleanup is entered,
\* the handle is opened exactly once and closed exactly once; whoever is inside
\* Init or Cleanup holds the mutex, and whenever the mutex is free the counter
\* equals the number of holders and the handle is open iff the counter is not 0.
C1_InitsThenCleanupsOnce ==
  /\ \A a \in InCritical : mu_ = a
  /\ (AllValid /\ ~lateInit /\ mu_ = 0) =>
        /\ ref_cnt_ = Cardinality(Holders)
        /\ Opens <= 1
        /\ (ref_cnt_ > 0) => (db_ # nullptr /\ heap[db_].state = "open")
        /\ (db_ = nullptr) => (ref_cnt_ = 0 /\ Opens = 0)
  /\ (AllValid /\ ~lateInit /\ AllDone) => (Opens = 1 /\ Closes = 1)

\* All adapters ran Init before any Cleanup and all have finished.
C1_Witness ==
  /\ AllValid /\ ~lateInit /\ AllDone
  /\ NumAdapters >= 2
  /\ Opens = 1 /\ Closes = 1

\* C2: whenever no Init or Cleanup is in progress and the reference counter is
\* zero, no engine handle exists (db_ is nullptr).
C2_NoHandleAtZero ==
  (mu_ = 0 /\ InCritical = {} /\ ref_cnt_ = 0) => db_ = nullptr

(***************************************************************************)
(* Row codec.  A std::string is a sequence of bytes; a Field is a record   *)
(* [name, value] of two byte strings; a row is a sequence of Fields.       *)
(***************************************************************************)
\* Field names and values the rows are drawn from: empty strings, zero bytes
\* and bytes that look like length prefixes are among them.
FieldNames == {<<>>, <<0>>, <<97>>}
FieldValues == {<<>>, <<0>>, <<1, 0>>}
Fields == [name : FieldNames, value : FieldValues]

NamesOf(row) == [i \in 1 .. Len(row) |-> row[i].name]
DistinctNames(row) ==
  \A i, j \in 1 .. Len(row) : row[i].name = row[j].name => i = j

\* s is an ordered subsequence of t.
IsSubsequence(s, t) ==
  \E f \in [1 .. Len(s) -> 1 .. Len(t)] :
    /\ \A i \in 1 .. Len(s) : t[f[i]] = s[i]
    /\ \A i, j \in 1 .. Len(s) : i < j => f[i] < f[j]

SeqsUpTo(S, n) == UNION {[1 .. k -> S] : k \in 0 .. n}
Rows == SeqsUpTo(Fields, MaxFields)
FieldLists == SeqsUpTo(FieldNames, MaxFields)

\* Mutant of U32Bytes: the length is written most significant byte first.
U32BytesBigEndian(n) ==
  <<(n \div 16777216) % 256, (n \div 65536) % 256, (n \div 256) % 256, n % 256>>

\* The sizeof(uint32_t) bytes of uint32_t len as they lie in memory (lines 71-72),
\* least significant byte first.  Sizes stay below 2^31 here, so the narrowing
\* of size_t to uint32_t keeps the value.
U32Bytes(n) ==
  <<n % 256, (n \div 256) % 256, (n \div 65536) % 256, (n \div 16777216) % 256>>

\* *reinterpret_cast<const uint32_t *>(p), p an offset into data (lines 85, 111).
U32At(data, p) ==
  data[p + 1] + 256 * data[p + 2] + 65536 * data[p + 3] + 16777216 * data[p + 4]

\* std::string(p, len): the len bytes from offset p on (lines 87, 113).
StringAt(data, p, len) == [i \in 1 .. len |-> data[p + i]]

\* Lines 71-76: one field appended to data.
SerializeField(field, data) ==
  data \o U32Bytes(Len(field.name)) \o field.name
       \o U32Bytes(Len(field.value)) \o field.value

\* BTreeDB::SerializeRow, lines 69-78.
RECURSIVE SerializeRow(_, _)
SerializeRow(values, data) ==
  IF values = <<>>
    THEN data
    ELSE SerializeRow(Tail(values), SerializeField(Head(values), data))

\* Lines 85-92 and 111-118: the name and value read at offset p.  A read that
\* leaves the buffer is reported as "oob" and nothing more is read.
ReadField(data, p) ==
  LET lim == Len(data)
      oob == [status |-> "oob", name |-> <<>>, value |-> <<>>, next |-> p]
  IN  IF p + LenBytes > lim THEN oob
      ELSE LET nlen == U32At(data, p)
               p1 == p + LenBytes
           IN  IF p1 + nlen > lim \/ p1 + nlen + LenBytes > lim THEN oob
               ELSE LET p2 == p1 + nlen
                        vlen == U32At(data, p2)
                        p3 == p2 + LenBytes
                    IN  IF p3 + vlen > lim THEN oob
                        ELSE [status |-> "ok",
                              name |-> StringAt(data, p1, nlen),
                              value |-> StringAt(data, p3, vlen),
                              next |-> p3 + vlen]

\* BTreeDB::DeserializeRow(values, p, lim), lines 108-121.
RECURSIVE DeserializeRowLoop(_, _, _)
DeserializeRowLoop(values, data, p) ==
  IF p = Len(data) THEN [status |-> "ok", values |-> values]
  ELSE IF ~(p < Len(data)) THEN [status |-> "assert", values |-> values]
  ELSE LET f == ReadField(data, p)
       IN  IF f.status # "ok" THEN [status |-> f.status, values |-> values]
           ELSE DeserializeRowLoop(
                  Append(values, [name |-> f.name, value |-> f.value]), data, f.next)

\* BTreeDB::DeserializeRow(values, data), lines 123-127.
DeserializeRow(values, data) == DeserializeRowLoop(values, data, 0)

\* Mutant of FilterMatch: every decoded field is taken.
FilterMatchAny(fields, fi, name) == TRUE

\* Line 93: *filter_iter == field.
FilterMatch(fields, fi, name) == fields[fi] = name

\* BTreeDB::DeserializeRowFilter(values, p, lim, fields), lines 80-99; fi is
\* filter_iter as an index into fields.  "short" is the outcome in which the
\* assertion of line 98 does not hold.
RECURSIVE DeserializeRowFilterLoop(_, _, _, _, _)
DeserializeRowFilterLoop(values, data, p, fields, fi) ==
  IF p # Len(data) /\ fi # Len(fields) + 1
    THEN IF ~(p < Len(data)) THEN [status |-> "assert", values |-> values]
         ELSE LET f == ReadField(data, p)
              IN  IF f.status # "ok" THEN [status |-> f.status, values |-> values]
                  ELSE IF FilterMatch(fields, fi, f.name)
                         THEN DeserializeRowFilterLoop(
                                Append(values, [name |-> f.name, value |-> f.value]),
                                data, f.next, fields, fi + 1)
                         ELSE DeserializeRowFilterLoop(values, data, f.next, fields, fi)
    ELSE IF Len(values) = Len(fields)
           THEN [status |-> "ok", values |-> values]
           ELSE [status |-> "short", values |-> values]

\* BTreeDB::DeserializeRowFilter(values, data, fields), lines 101-106.
DeserializeRowFilter(values, data, fields) ==
  DeserializeRowFilterLoop(values, data, 0, fields, 1)

(***************************************************************************)
(* The codec on its own: a row is encoded, then decoded in full or through *)
(* a field list.                                                           *)
(***************************************************************************)
LifeIdle ==
  /\ db_ = nullptr
  /\ ref_cnt_ = 0
  /\ mu_ = 0
  /\ heap = <<>>
  /\ pc = [a \in Adapters |-> "new"]
  /\ fieldcount_ = [a \in Adapters |-> 0]
  /\ props = [a \in Adapters |->
               [path |-> "/data/btree", pool_size |-> POOL_SIZE_NAME_DEFAULT, fieldcount |-> 1]]
  /\ lateInit = FALSE
  /\ crashed = FALSE

InitCodec ==
  /\ LifeIdle
  /\ StoreIdle
  /\ cRow \in Rows
  /\ cFields \in FieldLists
  /\ cData = <<>>
  /\ cOut = [status |-> "none", values |-> <<>>]
  /\ cpc = "idle"

Encode ==
  /\ cpc = "idle"
  /\ cData' = SerializeRow(cRow, <<>>)
  /\ cpc' = "encoded"
  /\ UNCHANGED <<lifeVars, storeVars, cRow, cFields, cOut>>

\* The buffer read back is not the one written: its last bytes are missing, or
\* a stray byte follows it.
Cuts == {1, LenBytes, LenBytes + 1}
DamagedBuffers(data) ==
  {SubSeq(data, 1, Len(data) - d) : d \in {c \in Cuts : c <= Len(data)}}
    \cup {data \o <<0>>}

\* data from offset p on is a concatenation of whole length-prefixed pairs.
RECURSIVE WholePairs(_, _)
WholePairs(data, p) ==
  \/ p = Len(data)
  \/ /\ ReadField(data, p).status = "ok"
     /\ WholePairs(data, ReadField(data, p).next)

Malformed(data) == ~WholePairs(data, 0)

Damage ==
  /\ cpc = "encoded"
  /\ \E data \in DamagedBuffers(cData) :
       /\ Malformed(data)
       /\ cData' = data
  /\ cpc' = "damaged"
  /\ UNCHANGED <<lifeVars, storeVars, cRow, cFields, cOut>>

\* Whether the process is aborted by a decode that ended in status: a read
\* outside the buffer is undefined and may trap or carry on, a failing assert
\* (lines 84, 98, 110) aborts unless the build compiles it out.
TrapOutcomes(status) ==
  IF status \in {"oob", "assert", "short"} THEN BOOLEAN ELSE {crashed}

Decode ==
  /\ cpc \in {"encoded", "damaged"}
  /\ cOut' = DeserializeRow(<<>>, cData)
  /\ crashed' \in TrapOutcomes(cOut'.status)
  /\ cpc' = IF cpc = "encoded" THEN "decoded" ELSE "decoded_damaged"
  /\ UNCHANGED <<db_, ref_cnt_, mu_, heap, pc, fieldcount_, props, lateInit>>
  /\ UNCHANGED <<storeVars, cRow, cFields, cData>>

DecodeFilter ==
  /\ cpc \in {"encoded", "damaged"}
  /\ cOut' = DeserializeRowFilter(<<>>, cData, cFields)
  /\ crashed' \in TrapOutcomes(cOut'.status)
  /\ cpc' = IF cpc = "encoded" THEN "filtered" ELSE "filtered_damaged"
  /\ UNCHANGED <<db_, ref_cnt_, mu_, heap, pc, fieldcount_, props, lateInit>>
  /\ UNCHANGED <<storeVars, cRow, cFields, cData>>

NextCodec == Encode \/ Damage \/ Decode \/ DecodeFilter

SpecCodec == InitCodec /\ [][NextCodec]_vars

\* C3: decoding the encoding of a non-empty row yields exactly that row: the
\* same number of fields, in the same order, with the same names and values.
C3_RoundTrip ==
  (cpc = "decoded" /\ cRow # <<>>) =>
     /\ cOut.status = "ok"
     /\ Len(cOut.values) = Len(cRow)
     /\ \A i \in 1 .. Len(cRow) :
          /\ cOut.values[i].name = cRow[i].name
          /\ cOut.values[i].value = cRow[i].value

\* A row of MaxFields fields with an empty name, a zero byte and an empty
\* value was encoded and decoded.
C3_Witness ==
  /\ cpc = "decoded"
  /\ Len(cRow) = MaxFields
  /\ cRow[1].name = <<>>
  /\ cRow[1].value = <<0>>
  /\ cRow[MaxFields].value = <<>>
  /\ cOut.status = "ok"
  /\ cOut.values = cRow

\* C4: for a row with distinct field names and a field list that is an ordered
\* subsequence of the row's names, the filtered decode of the encoding returns
\* exactly one field per requested name, in the order of the list, each with
\* the value the row stores under that name.
C4_FilteredDecode ==
  (cpc = "filtered" /\ DistinctNames(cRow) /\ IsSubsequence(cFields, NamesOf(cRow))) =>
     /\ cOut.status = "ok"
     /\ Len(cOut.values) = Len(cFields)
     /\ \A i \in 1 .. Len(cFields) :
          /\ cOut.values[i].name = cFields[i]
          /\ \E j \in 1 .. Len(cRow) :
               cRow[j].name = cFields[i] /\ cRow[j].value = cOut.values[i].value

\* A proper, non-empty subsequence that skips the first stored field was
\* requested and decoded.
C4_Witness ==
  /\ cpc = "filtered"
  /\ DistinctNames(cRow)
  /\ Len(cRow) = MaxFields
  /\ Len(cFields) = 1
  /\ cFields[1] = cRow[MaxFields].name
  /\ cOut.status = "ok"
  /\ cOut.values = <<cRow[MaxFields]>>

\* C15: decoding a malformed buffer, in full or through a field list, reads no
\* byte at or beyond the end of the buffer and traps: it returns no row.
C15_MalformedTraps ==
  (cpc \in {"decoded_damaged", "filtered_damaged"}) =>
     /\ cOut.status # "oob"
     /\ crashed

(***************************************************************************)
(* The engine (cmudb::KVTable): an ordered map from keys to buffers with   *)
(* point Get, Put and forward iteration from Seek.  Keys are numbered in   *)
(* the engine's key order.                                                 *)
(***************************************************************************)
Keys == 1 .. MaxKey

\* db_->Get(key, data): whether key is stored.
KVGet(key) == key \in DOMAIN store

\* db_->Put(key, data): the entries after the write.
KVPut(key, data) ==
  [k \in (DOMAIN store) \cup {key} |-> IF k = key THEN data ELSE store[k]]

\* db_->Seek(key): the stored keys >= key in ascending order, which is what
\* the iterator yields through *it, ++it and isEnd().
RECURSIVE KVSeek(_)
KVSeek(key) ==
  IF key > MaxKey THEN <<>>
  ELSE (IF key \in DOMAIN store THEN <<key>> ELSE <<>>) \o KVSeek(key + 1)

(***************************************************************************)
(* The CRUD operations.  ndebug tells whether the build compiles assert()  *)
(* out; an assertion that fails in a build that keeps it aborts.           *)
(***************************************************************************)
\* Lines 137-142 and 158-163: decode data through the field list or in full and
\* check the assertions of lines 98, 141 and 162.
DecodeStored(fc, data, fields, ndebug) ==
  LET d == IF fields.given
             THEN DeserializeRowFilter(<<>>, data, fields.names)
             ELSE DeserializeRow(<<>>, data)
      holds == /\ d.status = "ok"
               /\ fields.given \/ Len(d.values) = fc
  IN  [aborted |-> ~holds /\ (~ndebug \/ d.status \notin {"ok", "short"}),
       values |-> d.values]

\* BTreeDB::ReadSingle, lines 129-144, for an adapter with fieldcount_ = fc.
ReadSingle(fc, key, fields, ndebug) ==
  IF ~KVGet(key)
    THEN [status |-> "kNotFound", result |-> <<>>]
    ELSE LET d == DecodeStored(fc, store[key], fields, ndebug)
         IN  IF d.aborted
               THEN [status |-> "abort", result |-> <<>>]
               ELSE [status |-> "kOK", result |-> d.values]

\* Line 150: !it.isEnd() && i < len.
ScanContinue(it, i, len) == it # <<>> /\ i < len

\* Mutant of ScanAdvance: the iterator is not advanced.
ScanAdvanceStuck(it) == it

\* Line 154: ++it.
ScanAdvance(it) == Tail(it)

\* The loop of lines 150-164; it is the rest of the iteration.
RECURSIVE ScanLoop(_, _, _, _, _, _, _)
ScanLoop(fc, it, i, len, fields, ndebug, result) ==
  IF ~ScanContinue(it, i, len)
    THEN [status |-> "kOK", rows |-> result]
    ELSE LET d == DecodeStored(fc, store[Head(it)], fields, ndebug)
         IN  IF d.aborted
               THEN [status |-> "abort", rows |-> result]
               ELSE ScanLoop(fc, ScanAdvance(it), i + 1, len, fields, ndebug,
                             Append(result, d.values))

\* BTreeDB::ScanSingle, lines 146-166.
ScanSingle(fc, key, len, fields, ndebug) ==
  ScanLoop(fc, KVSeek(key), 0, len, fields, ndebug, <<>>)

\* The table names handed to the CRUD calls: the workload's table and another.
TABLENAME_DEFAULT == "usertable"
Tables == {TABLENAME_DEFAULT, "othertable"}

\* Mutant of InsertSingle: only the workload's table is written.
InsertSingleOneTable(table, key, values) ==
  IF table = TABLENAME_DEFAULT THEN KVPut(key, SerializeRow(values, <<>>)) ELSE store

\* BTreeDB::InsertSingle, lines 173-179: the entries after the call; table is
\* not used.
InsertSingle(table, key, values) == KVPut(key, SerializeRow(values, <<>>))

\* BTreeDB::UpdateSingle, lines 168-171.
UpdateSingle(table, key, values) == InsertSingle(table, key, values)

\* Mutant of DeleteSingle: the entry is removed.
DeleteSingleRemove(key) == [k \in (DOMAIN store) \ {key} |-> store[k]]

\* BTreeDB::DeleteSingle, lines 181-184: the entries after the call.
DeleteSingle(key) == store

\* Rows handed to Insert and Update, field lists handed to Read and Scan.
StoreFields ==
  {[name |-> <<97>>, value |-> <<49>>], [name |-> <<97>>, value |-> <<57>>],
   [name |-> <<98>>, value |-> <<50>>]}
StoreNames == {f.name : f \in StoreFields}
\* Rows as the workload builds them: distinct names in field order.
InFieldOrder(r) == \A i, j \in 1 .. Len(r) : i < j => r[i].name[1] < r[j].name[1]
WriteRows == {r \in SeqsUpTo(StoreFields, MaxFields) : InFieldOrder(r)}
\* nullptr, or a list of distinct names in any order.
ReadFields ==
  {NoFields} \cup
  {FieldList(n) : n \in {l \in SeqsUpTo(StoreNames, MaxFields) :
                           \A i, j \in 1 .. Len(l) : l[i] = l[j] => i = j}}

\* A call through the handle: on a freed handle the behaviour is undefined,
\* the call aborts the process or runs on the stale object.
HandleOutcomes ==
  IF heap[db_].state = "open" THEN {"run"} ELSE {"run", "abort"}

Call(op, table, fc, key, len, fields, row, status, result, rows) ==
  [op |-> op, table |-> table, fc |-> fc, key |-> key, len |-> len, fields |-> fields, row |-> row,
   status |-> status, result |-> result, rows |-> rows]

\* BTreeDB::Read, btree_db.h lines 31-34.
Read(a, table, key, fields) ==
  /\ ~crashed
  /\ pc[a] = "ready"
  /\ \E r \in {ReadSingle(fieldcount_[a], key, fields, nd) : nd \in BOOLEAN}
              \cup {[status |-> "abort", result |-> <<>>] : h \in HandleOutcomes \ {"run"}} :
       /\ last' = Call("Read", table, fieldcount_[a], key, 0, fields, <<>>, r.status, r.result, <<>>)
       /\ crashed' = (r.status = "abort")
  /\ issued' = issued \cup {a}
  /\ UNCHANGED <<db_, ref_cnt_, mu_, heap, pc, fieldcount_, props, lateInit, store, written, codecVars>>

\* BTreeDB::Scan, btree_db.h lines 36-39.
Scan(a, table, key, len, fields) ==
  /\ ~crashed
  /\ pc[a] = "ready"
  /\ \E r \in {ScanSingle(fieldcount_[a], key, len, fields, nd) : nd \in BOOLEAN}
              \cup {[status |-> "abort", rows |-> <<>>] : h \in HandleOutcomes \ {"run"}} :
       /\ last' = Call("Scan", table, fieldcount_[a], key, len, fields, <<>>, r.status, <<>>, r.rows)
       /\ crashed' = (r.status = "abort")
  /\ issued' = issued \cup {a}
  /\ UNCHANGED <<db_, ref_cnt_, mu_, heap, pc, fieldcount_, props, lateInit, store, written, codecVars>>

\* BTreeDB::Update, btree_db.h lines 41-43.
Update(a, table, key, values) ==
  /\ ~crashed
  /\ pc[a] = "ready"
  /\ \E h \in HandleOutcomes :
       IF h = "abort"
         THEN /\ last' = Call("Update", table, fieldcount_[a], key, 0, NoFields, values, "abort", <<>>, <<>>)
              /\ crashed' = TRUE
              /\ UNCHANGED <<store, written>>
         ELSE /\ store' = UpdateSingle(table, key, values)
              /\ written' = [k \in (DOMAIN written) \cup {key} |->
                               IF k = key THEN values ELSE written[k]]
              /\ last' = Call("Update", table, fieldcount_[a], key, 0, NoFields, values, "kOK", <<>>, <<>>)
              /\ UNCHANGED crashed
  /\ issued' = issued \cup {a}
  /\ UNCHANGED <<db_, ref_cnt_, mu_, heap, pc, fieldcount_, props, lateInit, codecVars>>

\* BTreeDB::Insert, btree_db.h lines 45-47.
Insert(a, table, key, values) ==
  /\ ~crashed
  /\ pc[a] = "ready"
  /\ \E h \in HandleOutcomes :
       IF h = "abort"
         THEN /\ last' = Call("Insert", table, fieldcount_[a], key, 0, NoFields, values, "abort", <<>>, <<>>)
              /\ crashed' = TRUE
              /\ UNCHANGED <<store, written>>
         ELSE /\ store' = InsertSingle(table, key, values)
              /\ written' = [k \in (DOMAIN written) \cup {key} |->
                               IF k = key THEN values ELSE written[k]]
              /\ last' = Call("Insert", table, fieldcount_[a], key, 0, NoFields, values, "kOK", <<>>, <<>>)
              /\ UNCHANGED crashed
  /\ issued' = issued \cup {a}
  /\ UNCHANGED <<db_, ref_cnt_, mu_, heap, pc, fieldcount_, props, lateInit, codecVars>>

\* BTreeDB::Delete, btree_db.h lines 49-51.
Delete(a, table, key) ==
  /\ ~crashed
  /\ pc[a] = "ready"
  /\ store' = DeleteSingle(key)
  /\ last' = Call("Delete", table, fieldcount_[a], key, 0, NoFields, <<>>, "kOK", <<>>, <<>>)
  /\ UNCHANGED <<lifeVars, codecVars, written, issued>>

\* Field lists handed to Scan: nullptr, or a list of one name.
ScanFields == {f \in ReadFields : ~f.given \/ Len(f.names) = 1}

(***************************************************************************)
(* An adapter at work: adapter 1 has run Init with valid properties, the   *)
(* other adapters have not started.                                        *)
(***************************************************************************)
InitStore ==
  /\ CodecIdle
  /\ StoreIdle
  /\ \E fc \in FieldCounts :
       /\ props = [a \in Adapters |->
                    [path |-> "/data/btree", pool_size |-> POOL_SIZE_NAME_DEFAULT,
                     fieldcount |-> fc]]
       /\ fieldcount_ = [a \in Adapters |-> IF a = 1 THEN fc ELSE 0]
       /\ heap = <<NewKVTable(props[1])>>
  /\ db_ = 1
  /\ ref_cnt_ = 1
  /\ mu_ = 0
  /\ pc = [a \in Adapters |-> IF a = 1 THEN "ready" ELSE "new"]
  /\ lateInit = FALSE
  /\ crashed = FALSE

NextStore ==
  \E a \in Adapters :
    \/ \E key \in Keys, fields \in ReadFields : Read(a, TABLENAME_DEFAULT, key, fields)
    \/ \E key \in Keys, len \in 0 .. MaxScanLen, fields \in ScanFields :
         Scan(a, TABLENAME_DEFAULT, key, len, fields)
    \/ \E table \in Tables, key \in Keys, values \in WriteRows : Update(a, table, key, values)
    \/ \E table \in Tables, key \in Keys, values \in WriteRows : Insert(a, table, key, values)
    \/ \E key \in Keys : Delete(a, TABLENAME_DEFAULT, key)

SpecStore == InitStore /\ [][NextStore]_vars

(***************************************************************************)
(* Observations on the CRUD operations.                                    *)
(***************************************************************************)
Min(x, y) == IF x < y THEN x ELSE y

\* The stored keys >= key, and the i-th smallest of them.
KeysFrom(key) == {k \in DOMAIN store : k >= key}
NthKeyFrom(key, i) ==
  CHOOSE k \in KeysFrom(key) : Cardinality({j \in KeysFrom(key) : j < k}) = i - 1

\* What decoding the entry of key yields: through the field list when one is
\* given, in full when not.
Decoding(key, fields) ==
  IF fields.given
    THEN DeserializeRowFilter(<<>>, store[key], fields.names).values
    ELSE DeserializeRow(<<>>, store[key]).values

\* C5: the entry stored under a key is the encoding of the row of the last
\* Insert or Update on that key, and an unfiltered Read of the key returns kOK
\* with exactly the fields of that row.
C5_ReadReturnsLastWrite ==
  /\ DOMAIN store = DOMAIN written
  /\ \A k \in DOMAIN written : store[k] = SerializeRow(written[k], <<>>)
  /\ (last.op = "Read" /\ ~last.fields.given /\ last.key \in DOMAIN written) =>
        (last.status = "kOK" /\ last.result = written[last.key])

\* C6: Scan(K, C) returns kOK and appends exactly min(C, number of stored keys
\* >= K) rows, the i-th row being the decoding of the entry of the i-th
\* smallest stored key >= K.
C6_ScanCountAndOrder ==
  (last.op = "Scan") =>
     /\ last.status = "kOK"
     /\ Len(last.rows) = Min(last.len, Cardinality(KeysFrom(last.key)))
     /\ \A i \in 1 .. Len(last.rows) :
          last.rows[i] = Decoding(NthKeyFrom(last.key, i), last.fields)

\* C7: Read of a key with no entry returns kNotFound and no fields; Read of a
\* stored key returns kOK with the decoding of the entry (through the field
\* list when one is given); and a Read changes neither the store nor the
\* engine handle nor the reference counter.
C7_ReadResult ==
  /\ [](last.op = "Read" =>
          IF KVGet(last.key)
            THEN last.status = "kOK" /\ last.result = Decoding(last.key, last.fields)
            ELSE last.status = "kNotFound" /\ last.result = <<>>)
  /\ [][(last'.op = "Read" /\ last' # last) => UNCHANGED <<store, db_, heap, ref_cnt_>>]_vars

Scanned(key, len) ==
  {k \in KeysFrom(key) : Cardinality({j \in KeysFrom(key) : j < k}) < len}

\* The field list does not fit the row stored under key.
Mismatch(key, fields) ==
  fields.given /\ ~IsSubsequence(fields.names, NamesOf(written[key]))

\* C9: a Read or Scan whose field list is not a subsequence of the field names
\* of a row it decodes reports kError: it neither returns kOK with fewer fields
\* than requested nor aborts the process.
C9_MismatchIsError ==
  /\ (last.op = "Read" /\ KVGet(last.key) /\ Mismatch(last.key, last.fields)) =>
        last.status = "kError"
  /\ (last.op = "Scan" /\ \E k \in Scanned(last.key, last.len) : Mismatch(k, last.fields)) =>
        last.status = "kError"

\* C10: every unfiltered Read and Scan passes the assertions of lines 141 and
\* 162: it does not abort and each row it produces has fieldcount_ fields.
C10_FieldCount ==
  /\ (last.op = "Read" /\ ~last.fields.given /\ KVGet(last.key)) =>
        (last.status = "kOK" /\ Len(last.result) = last.fc)
  /\ (last.op = "Scan" /\ ~last.fields.given) =>
        /\ last.status = "kOK"
        /\ \A i \in 1 .. Len(last.rows) : Len(last.rows[i]) = last.fc

\* C16: the i-th row a Scan appended is the row that a Read of the i-th smallest
\* stored key >= the start key returns for the same field list on the store
\* as the Scan left it, and the Scan did not change the store.
C16_ScanAgreesWithRead ==
  /\ [](last.op = "Scan" =>
          /\ Len(last.rows) <= Cardinality(KeysFrom(last.key))
          /\ \A i \in 1 .. Len(last.rows) :
               LET k == NthKeyFrom(last.key, i)
                   read(nd) == ReadSingle(last.fc, k, last.fields, nd)
               IN  /\ \E nd \in BOOLEAN : read(nd).status = "kOK"
                   /\ \A nd \in BOOLEAN :
                        read(nd).status = "kOK" => read(nd).result = last.rows[i])
  /\ [][(last'.op = "Scan" /\ last' # last) => store' = store]_vars

\* A Scan through a field list returned the rows of two keys, which differ.
C16_Witness ==
  /\ last.op = "Scan"
  /\ last.status = "kOK"
  /\ last.fields.given
  /\ Len(last.rows) = 2
  /\ last.rows[1] # last.rows[2]
  /\ last.rows[2] = ReadSingle(last.fc, NthKeyFrom(last.key, 2), last.fields, FALSE).result

\* A step in which Insert or Update is called.
WriteCall == last' # last /\ last'.op \in {"Insert", "Update"}

\* C17: an Insert or Update of row R under key k returns kOK and leaves the
\* store with the encoding of R under k and every other entry as it was,
\* whatever the table name is; the reference counter, the engine handle and
\* the field count of the adapter are unchanged.
C17_WriteFrame ==
  [][WriteCall =>
       /\ last'.status = "kOK"
       /\ DOMAIN store' = (DOMAIN store) \cup {last'.key}
       /\ store'[last'.key] = SerializeRow(last'.row, <<>>)
       /\ \A k \in (DOMAIN store) \ {last'.key} : store'[k] = store[k]
       /\ UNCHANGED <<ref_cnt_, db_, heap, fieldcount_>>]_vars

\* An Update under another table name overwrote the entry of one key while
\* another key holds a different entry.
C17_Witness ==
  /\ last.op = "Update"
  /\ last.table # TABLENAME_DEFAULT
  /\ last.status = "kOK"
  /\ DOMAIN store = Keys
  /\ store[last.key] = SerializeRow(last.row, <<>>)
  /\ \E k \in Keys : store[k] # store[last.key]

(***************************************************************************)
(* Worker lifetimes: every adapter runs Init, then CRUD calls, then        *)
(* Cleanup, with any properties and in any interleaving.                   *)
(***************************************************************************)
\* The calls a worker makes between Init and Cleanup.
WorkRows == {r \in WriteRows : Len(r) = 1 /\ r[1].name = <<97>>}
WorkFields == {NoFields, FieldList(<<<<97>>>>)}

NextWork ==
  \E a \in Adapters :
    \/ \E fields \in WorkFields : Read(a, TABLENAME_DEFAULT, 1, fields)
    \/ \E fields \in WorkFields : Scan(a, TABLENAME_DEFAULT, 1, 1, fields)
    \/ \E values \in WorkRows : Update(a, TABLENAME_DEFAULT, 1, values)
    \/ \E values \in WorkRows : Insert(a, TABLENAME_DEFAULT, 1, values)
    \/ Delete(a, TABLENAME_DEFAULT, 1)

\* Workers differ in whether they configure a path.
WorkProperties ==
  {p \in Properties : p.pool_size = POOL_SIZE_NAME_DEFAULT /\ p.fieldcount = 1}

Init ==
  /\ CodecIdle
  /\ StoreIdle
  /\ db_ = nullptr
  /\ ref_cnt_ = 0
  /\ mu_ = 0
  /\ heap = <<>>
  /\ pc = [a \in Adapters |-> "new"]
  /\ fieldcount_ = [a \in Adapters |-> 0]
  /\ props \in [Adapters -> WorkProperties]
  /\ lateInit = FALSE
  /\ crashed = FALSE

Next == NextLife \/ NextWork

Spec == Init /\ [][Next]_vars

(***************************************************************************)
(* Observations on Init.                                                   *)
(***************************************************************************)
\* The step in which adapter a leaves Init.
InitReturns(a) == pc[a] = "init" /\ pc'[a] # "init"

\* C11: an Init with no path configured that finds no engine handle (db_ is
\* nullptr) ends in the exception of line 53 and opens no handle, and an adapter
\* whose Init ended that way has issued no Get, Put or Seek.
C11_MissingPathIsFatal ==
  /\ [](\A a \in Adapters : pc[a] = "failed" => a \notin issued)
  /\ [][\A a \in Adapters :
          (InitReturns(a) /\ db_ = nullptr /\ props[a].path = PROP_NAME_DEFAULT) =>
             /\ pc'[a] = "failed"
             /\ heap' = heap
             /\ db_' = nullptr]_vars

\* An adapter without a path failed in Init before any handle was opened, and
\* another adapter went on to open the handle and issue storage operations.
C11_Witness ==
  \E a, b \in Adapters :
    /\ pc[a] = "failed"
    /\ a \notin issued
    /\ b \in issued
    /\ Len(heap) = 1
    /\ heap[1].path # PROP_NAME_DEFAULT

\* The handle h was opened with the path and pool size of adapter a.
OpenedWith(h, a) ==
  /\ heap[h].path = props[a].path
  /\ heap[h].page_num = props[a].pool_size \div PAGE_SIZE

\* C12: an Init that finds db_ set returns normally whatever its own path and
\* pool size are, also when its path is missing; it constructs no handle and
\* leaves db_ and every handle's path and page budget as they are, the counter
\* having been incremented once on entry.  Every handle carries the path and
\* page budget of an adapter with a configured path.
C12_FirstCallerWins ==
  /\ [](\A h \in 1 .. Len(heap) :
          \E a \in Adapters : props[a].path # PROP_NAME_DEFAULT /\ OpenedWith(h, a))
  /\ [][\A a \in Adapters :
          /\ (pc[a] = "new" /\ pc'[a] = "init") =>
                (ref_cnt_' = ref_cnt_ + 1 /\ db_' = db_ /\ heap' = heap)
          /\ (InitReturns(a) /\ db_ # nullptr) =>
                /\ pc'[a] = "ready"
                /\ ref_cnt_' = ref_cnt_
                /\ db_' = db_
                /\ heap' = heap]_vars

\* An adapter with no path and another pool size completed Init on the handle
\* that an earlier Init opened, which still has the opener's path and budget.
C12_Witness ==
  \E a, b \in Adapters :
    /\ pc[a] = "ready" /\ pc[b] = "ready"
    /\ props[a].path = PROP_NAME_DEFAULT
    /\ props[a].pool_size # props[b].pool_size
    /\ ref_cnt_ = 2
    /\ Len(heap) = 1 /\ db_ = 1
    /\ heap[1].state = "open"
    /\ OpenedWith(1, b) /\ ~OpenedWith(1, a)

\* C14: whenever no Init or Cleanup is in progress, ref_cnt_ is the number of
\* adapters whose Init succeeded and whose Cleanup has not run (a failed Init
\* leaves the counter as it found it), and once no such adapter is left no
\* handle is open.
C14_RefCountAccurate ==
  /\ mu_ = 0 => ref_cnt_ = Cardinality(Holders)
  /\ (mu_ = 0 /\ Holders = {}) => \A h \in 1 .. Len(heap) : heap[h].state # "open"

(***************************************************************************)
(* Observations on worker lifetimes.                                       *)
(***************************************************************************)
\* A step in which a CRUD call that goes through db_ is made.
HandleCall == last' # last /\ last'.op \in {"Read", "Scan", "Update", "Insert"}

\* C13: every CRUD call goes through an open engine handle, and delete runs
\* at most once on each handle.
C13_NoUseOfClosedHandle ==
  /\ [](\A h \in 1 .. Len(heap) : heap[h].deletes <= 1)
  /\ [][HandleCall => (db_ # nullptr /\ heap[db_].state = "open")]_vars

====
